---- MODULE Spec2Model ----
(***************************************************************************)
(* Verification model of the material extraction pipeline:                 *)
(*   - main_flow.run_extraction / process_material (the orchestrator),     *)
(*   - info_extraction/web_scraper.WebScraper (the scraping session),      *)
(*   - qb_client.QBClient (the record lookup client),                      *)
(*   - read_write_excel.read_material_numbers_from_excel (both variants),  *)
(*   - the retention sweep of frontend.run_extraction,                     *)
(*   - app/html_parser.parse_qa_requirements (the attribute extractor),    *)
(*   - info_extraction/result_to_excel (the report compiler).              *)
(* Five specifications share the module: Spec (one orchestrator run),      *)
(* SpecIds (the identifier source as a function of a workbook), SpecSweep  *)
(* (the retention sweep over the downloads directory), SpecParse (the      *)
(* attribute extractor called on pages) and SpecReport (generate_reports   *)
(* on the folders a run left).                                             *)
(***************************************************************************)
EXTENDS Integers, Sequences, FiniteSets, TLC

(***************************************************************************)
(* Bounds of the model.                                                    *)
(***************************************************************************)
\* longest list of material numbers one run is given
MaxIds == 2
\* most attachment rows the backend returns for one material
MaxImages == 2

\* web_scraper.py:87  `while not save_path.exists() and retry < 5`
MaxRetry == 5

\* Python's None, for the optional string fields of a Material
None == "None"

\* the material numbers a run can be given, in iteration order
IdPool == <<"123", "456", "789", "1011">>

(***************************************************************************)
(* State of one orchestrator run.                                          *)
(***************************************************************************)
VARIABLES
    pc,                \* position of run_extraction / process_material / WebScraper
    material_numbers,  \* main_flow.py:49, the list the identifier source returned
    idx,               \* number of identifiers handed to process_material so far
    output_folder,     \* main_flow.py:56, TRUE once the batch folder was created
    browser,           \* WebScraper.browser: "none" | "running" | "stopped"
    entered,           \* TRUE once __aenter__ has returned (the session is ready)
    openCount,         \* calls of WebScraper.__aenter__
    stopCount,         \* calls of browser.stop()
    material_data,     \* process_material's material_data dict (<<>> before the lookup)
    qa_outcome,        \* how lines 21-31 ended for the current identifier
    lookupCalls,       \* get_material_details calls for the current identifier
    fetchCalls,        \* get_qa_html calls for the current identifier
    downloadCalls,     \* download_image calls for the current identifier
    img,               \* enumerate index i of the image loop (line 36)
    backend,           \* how the backend answered the lookup's two queries (<<>> before)
    download_log,      \* the download_image calls of the current identifier, in call order
    image_files,       \* the numbers i whose image_<i>.png the current identifier's folder holds
    retry,             \* download_image's retry counter
    file_exists,       \* save_path.exists() for the image being downloaded
    requests,          \* page.download_file calls made by the current download_image
    dl_raised,         \* TRUE when the current download_image ended in its except clause
    dirs,              \* material numbers whose material_<mano> folder exists
    written,           \* material numbers whose snapshot was written, in write order
    json_dumped,       \* the JSON object written by the current identifier's json.dump
    error,             \* the exception that escaped, "none" if none did
    result,            \* what run_extraction gave its caller: "unset" | "None" | "raised"
    \* the identifier source, called on one workbook (SpecIds)
    path_state,        \* the path given: "ok" | "missing" | "unreadable"
    workbook,          \* pd.read_excel(..., sheet_name=None): the sheets, in order
    numbers_root,      \* <<list>> returned by read_write_excel.py, <<>> before the call
    numbers_app,       \* <<list>> returned by app/read_write_excel.py, <<>> before the call
    \* the retention sweep of frontend.run_extraction (SpecSweep)
    sweep_pc,          \* position in frontend.py:97-112
    stamp_date,        \* the date of time.strftime at line 97
    current_date,      \* the date of time.strftime at line 102 (<<>> before)
    entries,           \* what DOWNLOADS_DIR holds
    todo,              \* the entries the loop of line 103 has yet to visit
    removed,           \* the entries shutil.rmtree deleted
    \* the attribute extractor, called on pages one after the other (SpecParse)
    parse_pc,          \* which call comes next: "idle" | "first" | "other" | "again" | "done"
    parse_calls,       \* the calls made so far: the page given and the mapping returned
    \* the report compiler, generate_reports on one base folder (SpecReport)
    report_pc,         \* position in generate_reports
    base,              \* the folders of base_download_dir, sorted by name
    source_i,          \* number of source folders line 159 has taken
    material_i,        \* number of material folders line 171 has taken
    report_entries,    \* `entries` of lines 170-174
    reports,           \* the workbooks wb.save wrote
    report_error       \* the exception that left generate_reports, "none" if none did

runVars == <<pc, material_numbers, idx, output_folder, browser, entered, openCount,
             stopCount, material_data, qa_outcome, lookupCalls, fetchCalls,
             downloadCalls, img, backend, download_log, image_files, retry, file_exists,
             requests,
             dl_raised, dirs,
             written, json_dumped, error, result>>

idsVars == <<path_state, workbook, numbers_root, numbers_app>>

sweepVars == <<sweep_pc, stamp_date, current_date, entries, todo, removed>>

parseVars == <<parse_pc, parse_calls>>

reportVars == <<report_pc, base, source_i, material_i, report_entries, reports, report_error>>

vars == <<runVars, idsVars, sweepVars, parseVars, reportVars>>

Range(s) == {s[i] : i \in 1..Len(s)}

\* the identifier process_material is working on
mano == material_numbers[idx]

(***************************************************************************)
(* Python values the backend's JSON can hold in a field.                   *)
(***************************************************************************)
PyNone == [type |-> "none"]
PyInt(n) == [type |-> "int", n |-> n]
PyStr(chars) == [type |-> "str", chars |-> chars]

Digits == {"0", "1", "2", "3", "4", "5", "6", "7", "8", "9"}

DigitVal(c) ==
    CASE c = "0" -> 0 [] c = "1" -> 1 [] c = "2" -> 2 [] c = "3" -> 3 [] c = "4" -> 4
      [] c = "5" -> 5 [] c = "6" -> 6 [] c = "7" -> 7 [] c = "8" -> 8 [] c = "9" -> 9

\* Python truthiness, as `if comp_id:` (main_flow.py:21) applies it
Truthy(v) ==
    CASE v.type = "none" -> FALSE
      [] v.type = "int" -> v.n # 0
      [] v.type = "str" -> v.chars # <<>>

RECURSIVE DecimalValue(_)
DecimalValue(chars) ==
    IF chars = <<>> THEN 0
    ELSE 10 * DecimalValue(SubSeq(chars, 1, Len(chars) - 1)) + DigitVal(chars[Len(chars)])

\* int(comp_id) (main_flow.py:24): [ok |-> FALSE] stands for ValueError / TypeError
PyIntOf(v) ==
    CASE v.type = "int" -> [ok |-> TRUE, n |-> v.n]
      [] v.type = "str" ->
            IF v.chars # <<>> /\ \A i \in 1..Len(v.chars) : v.chars[i] \in Digits
            THEN [ok |-> TRUE, n |-> DecimalValue(v.chars)]
            ELSE [ok |-> FALSE]
      [] OTHER -> [ok |-> FALSE]

(***************************************************************************)
(* The record lookup client (qb_client.py).                                *)
(***************************************************************************)
\* config.py:20-25, the labels QBClient reads
component_id_field == "Component ID#"
material_cost_field == "Material Cost"
supplier_name_field == "Supplier Name(EN)"
image_field == "Image"

\* the `fields` array of a well-formed answer of the material table
ComponentFields ==
    <<[id |-> "6", label |-> component_id_field],
      [id |-> "7", label |-> material_cost_field],
      [id |-> "8", label |-> supplier_name_field]>>

\* the `fields` array of a well-formed answer of the attachment table
AttachmentFields == <<[id |-> "9", label |-> image_field]>>

\* component references the backend can hold: numbers and texts, zero and empty included
ComponentIdValues ==
    {PyInt(0), PyInt(12), PyStr(<<"0">>), PyStr(<<"1", "2">>), PyStr(<<"a", "b">>),
     PyStr(<<>>)}

CostValues == {PyStr(<<"9", ".", "5">>)}

SupplierValues == {PyStr(<<"A", "C", "M", "E">>)}

\* one row of the material table, keyed by field id: each field is present or not
ComponentRows ==
    UNION {{r \in [ids -> ComponentIdValues \cup CostValues \cup SupplierValues] :
              /\ "6" \in ids => r["6"] \in ComponentIdValues
              /\ "7" \in ids => r["7"] \in CostValues
              /\ "8" \in ids => r["8"] \in SupplierValues} :
           ids \in SUBSET {"6", "7", "8"}}

\* the embedded-HTML values of an attachment's image field (None: the field is null)
ImageHtmls ==
    {None, "see attached drawing", "<img alt='front'>",
     "<img src='https://files/u1.png'>", "<IMG SRC='https://files/u2.png'>"}

\* `"<img" in image_html.lower()` (qb_client.py:71)
HasImgTag(html) ==
    html \in {"<img alt='front'>", "<img src='https://files/u1.png'>",
              "<IMG SRC='https://files/u2.png'>"}

\* SRC_RE.search(image_html) (qb_client.py:14, 72): <<>> when there is no match,
\* <<group 1>> when there is one (the expression ignores case)
SrcMatch(html) ==
    CASE html = "<img src='https://files/u1.png'>" -> <<"https://files/u1.png">>
      [] html = "<IMG SRC='https://files/u2.png'>" -> <<"https://files/u2.png">>
      [] OTHER -> <<>>

\* one row of the attachment table, keyed by field id
AttachmentRows == UNION {[ids -> ImageHtmls] : ids \in SUBSET {"9"}}

RECURSIVE SeqsUpTo(_, _)
SeqsUpTo(S, n) ==
    IF n = 0 THEN {<<>>}
    ELSE LET shorter == SeqsUpTo(S, n - 1)
         IN shorter \cup {Append(s, x) : s \in {t \in shorter : Len(t) = n - 1}, x \in S}

\* what client.query + raise_for_status + json() can come to (qb_client.py:24-27):
\* an exception, or a body: its rows, and its fields array unless the body lacks one
QueryOutcomes(rows, fields, maxRows) ==
    {[status |-> "error"]}
      \cup {[status |-> "ok", has_fields |-> hf, fields |-> fields, data |-> d] :
              hf \in BOOLEAN, d \in SeqsUpTo(rows, maxRows)}

\* how one query ended, as qb_client.py tells the cases apart: the exception of
\* lines 24-29, `not response_data.get("data")` of lines 35 and 50, a body whose rows
\* come without the fields array, a body with rows and fields
QueryKind(outcome) ==
    IF outcome.status = "error" THEN "error"
    ELSE IF outcome.data = <<>> THEN "no rows"
    ELSE IF ~outcome.has_fields THEN "no fields"
    ELSE "rows"

\* qb_client.py:20-29  _query_table: <<>> stands for the None returned on an exception
QueryTable(outcome) ==
    IF outcome.status = "error" THEN <<>> ELSE <<outcome>>

\* an empty Python dict
EmptyDict == [label \in {} |-> PyNone]

\* dict.get(key), None when the key is missing
DictGet(d, key, default) == IF key \in DOMAIN d THEN d[key] ELSE default

\* qb_client.py:37-42 and 53-57: the label-keyed dict of the fields the row holds
Reshape(fields, record) ==
    LET present == {i \in 1..Len(fields) : fields[i].id \in DOMAIN record}
    IN [label \in {fields[i].label : i \in present} |->
          record[fields[CHOOSE i \in present : fields[i].label = label].id]]

\* get_component_data with line 34 written `if not response_data.get("data")`: the
\* None of a failed query meets .get and raises
GetComponentDataNoneUnchecked(outcome) ==
    LET response_data == QueryTable(outcome)
    IN IF response_data = <<>>
       THEN [raised |-> TRUE]
       ELSE IF response_data[1].data = <<>>
       THEN [raised |-> FALSE, value |-> EmptyDict]
       ELSE IF ~response_data[1].has_fields
       THEN [raised |-> TRUE]
       ELSE [raised |-> FALSE,
             value |-> Reshape(response_data[1].fields, response_data[1].data[1])]

\* qb_client.py:31-44  get_component_data; raised: the KeyError of line 40
GetComponentData(outcome) ==
    LET response_data == QueryTable(outcome)
    IN IF response_data = <<>> \/ response_data[1].data = <<>>
       THEN [raised |-> FALSE, value |-> EmptyDict]
       ELSE IF ~response_data[1].has_fields
       THEN [raised |-> TRUE]
       ELSE [raised |-> FALSE,
             value |-> Reshape(response_data[1].fields, response_data[1].data[1])]

\* qb_client.py:46-61  get_attachments; raised: the KeyError of line 56
GetAttachments(outcome) ==
    LET response_data == QueryTable(outcome)
    IN IF response_data = <<>> \/ response_data[1].data = <<>>
       THEN [raised |-> FALSE, value |-> <<>>]
       ELSE IF ~response_data[1].has_fields
       THEN [raised |-> TRUE]
       ELSE [raised |-> FALSE,
             value |-> [k \in 1..Len(response_data[1].data) |->
                          Reshape(response_data[1].fields, response_data[1].data[k])]]

\* qb_client.py:68-74  the image URLs of the attachments, in row order
RECURSIVE ImageUrls(_)
ImageUrls(attachments) ==
    IF attachments = <<>> THEN <<>>
    ELSE LET image_html == DictGet(attachments[1], image_field, None)
             rest == ImageUrls(Tail(attachments))
         IN IF image_html # None /\ HasImgTag(image_html) /\ SrcMatch(image_html) # <<>>
            THEN <<SrcMatch(image_html)[1]>> \o rest
            ELSE rest

\* Material.qa_requirements = None
NoQa == <<>>

\* qb_client.py:63-83  get_material_details
GetMaterialDetails(material_number, compOutcome, attOutcome) ==
    LET component_data == GetComponentData(compOutcome)
        attachments == GetAttachments(attOutcome)
    IN IF component_data.raised \/ attachments.raised
       THEN [raised |-> TRUE]
       ELSE [raised |-> FALSE,
             value |-> [material_number |-> material_number,
                        component_id |-> DictGet(component_data.value, component_id_field, PyNone),
                        cost |-> DictGet(component_data.value, material_cost_field, PyNone),
                        supplier_name |-> DictGet(component_data.value, supplier_name_field, PyNone),
                        image_url |-> ImageUrls(attachments.value),
                        qa_requirements |-> NoQa]]

\* every answer pair the backend can give to one get_material_details call
ComponentOutcomes == QueryOutcomes(ComponentRows, ComponentFields, 1)
AttachmentOutcomes == QueryOutcomes(AttachmentRows, AttachmentFields, MaxImages)

(***************************************************************************)
(* The attribute extractor (app/html_parser.py).  A page is its QA table,  *)
(* if it has one: rows of cells.  A cell has the class of its <td>, the    *)
(* text of its fieldLabel <label> (None without one), its own text and     *)
(* whether it holds the <img alt="Yes"> check mark.                        *)
(***************************************************************************)
Td(cls, label, text, yes) == [cls |-> cls, label |-> label, text |-> text, yes |-> yes]

QaBool(b) == [type |-> "bool", b |-> b]
QaText(s) == [type |-> "text", s |-> s]

\* qa_requirements[name] = value, on a dict held as the sequence of its <<name, value>>
\* pairs in insertion order: a name already there keeps its place
DictSet(d, name, value) ==
    IF \E i \in 1..Len(d) : d[i][1] = name
    THEN [i \in 1..Len(d) |-> IF d[i][1] = name THEN <<name, value>> ELSE d[i]]
    ELSE Append(d, <<name, value>>)

\* app/html_parser.py:20-36  the while loop over one row's cells, from cell i on
RECURSIVE ParseRow(_, _, _)
ParseRow(tds, i, qa) ==
    IF i > Len(tds) THEN qa
    ELSE LET td == tds[i]
         IN IF td.label = None THEN ParseRow(tds, i + 1, qa)
            ELSE IF td.cls = "label"
            THEN IF i + 1 <= Len(tds) /\ tds[i + 1].cls = "cell"
                 THEN ParseRow(tds, i + 2, DictSet(qa, td.label, QaText(tds[i + 1].text)))
                 ELSE ParseRow(tds, i + 2, qa)
            ELSE ParseRow(tds, i + 1, DictSet(qa, td.label, QaBool(td.yes)))

RECURSIVE ParseRows(_, _)
ParseRows(rows, qa) ==
    IF rows = <<>> THEN qa ELSE ParseRows(Tail(rows), ParseRow(rows[1], 1, qa))

\* the mapping the call before this one returned, <<>> on the first call
LastMapping ==
    IF parse_calls = <<>> THEN <<>> ELSE parse_calls[Len(parse_calls)].result

\* parse_qa_requirements filling a dict that outlives the call (a module-level dict or
\* a mutable default argument) instead of the fresh one of line 9
parse_qa_requirementsSharedDict(html) ==
    IF ~html.table THEN LastMapping ELSE ParseRows(html.rows, LastMapping)

\* app/html_parser.py:4-38  parse_qa_requirements
parse_qa_requirements(html) ==
    IF ~html.table THEN <<>> ELSE ParseRows(html.rows, <<>>)

\* the pages get_content can return during a run: one without the QA table, one with it
HtmlPages ==
    {[table |-> FALSE, rows |-> <<>>],
     [table |-> TRUE,
      rows |-> <<<<Td("label", "Comments", "", FALSE), Td("cell", None, "fragile", FALSE)>>,
                 <<Td("", "Drop Test", "", TRUE), Td("", "Burst Test", "", FALSE)>>>>]}

(***************************************************************************)
(* Init: run_extraction is about to be called with a workbook whose        *)
(* identifier list (a list made from a set: no duplicates) has 0..MaxIds   *)
(* entries.                                                                *)
(***************************************************************************)
InitRun ==
    /\ pc = "read"
    /\ material_numbers \in {SubSeq(IdPool, 1, k) : k \in 0..MaxIds}
    /\ idx = 0
    /\ output_folder = FALSE
    /\ browser = "none"
    /\ entered = FALSE
    /\ openCount = 0
    /\ stopCount = 0
    /\ material_data = <<>>
    /\ qa_outcome = "none"
    /\ lookupCalls = 0
    /\ fetchCalls = 0
    /\ downloadCalls = 0
    /\ img = 0
    /\ backend = <<>>
    /\ download_log = <<>>
    /\ image_files = {}
    /\ retry = 0
    /\ file_exists = FALSE
    /\ requests = 0
    /\ dl_raised = FALSE
    /\ dirs = {}
    /\ written = <<>>
    /\ json_dumped = <<>>
    /\ error = "none"
    /\ result = "unset"

\* the identifier source before any call, on an empty workbook
IdsIdle ==
    /\ path_state = "ok"
    /\ workbook = <<>>
    /\ numbers_root = <<>>
    /\ numbers_app = <<>>

\* the downloads directory with no sweep under way
SweepIdle ==
    /\ sweep_pc = "idle"
    /\ stamp_date = <<>>
    /\ current_date = <<>>
    /\ entries = {}
    /\ todo = {}
    /\ removed = {}

\* the attribute extractor before any call
ParseIdle ==
    /\ parse_pc = "idle"
    /\ parse_calls = <<>>

\* no report compilation under way
ReportIdle ==
    /\ report_pc = "idle"
    /\ base = <<>>
    /\ source_i = 0
    /\ material_i = 0
    /\ report_entries = <<>>
    /\ reports = {}
    /\ report_error = "none"

Init == InitRun /\ IdsIdle /\ SweepIdle /\ ParseIdle /\ ReportIdle

sessVars == <<browser, entered, openCount, stopCount>>
idVars == <<material_data, qa_outcome, lookupCalls, fetchCalls, downloadCalls, img, backend,
            download_log, image_files>>
dlVars == <<retry, file_exists, requests, dl_raised>>
fsVars == <<dirs, written, json_dumped>>

\* main_flow.py:50-52  what run_extraction returns when there is no material number
EmptyRunResult == "None"

\* run_extraction creating the batch folder before it looks at the identifiers
RunExtractionBeginMkdirFirst ==
    /\ pc = "read"
    /\ output_folder' = TRUE
    /\ IF material_numbers = <<>>
       THEN /\ pc' = "done"
            /\ result' = EmptyRunResult
       ELSE /\ pc' = "aenter"
            /\ UNCHANGED result
    /\ UNCHANGED <<idsVars, sweepVars, parseVars, reportVars, material_numbers, idx, error, sessVars, idVars, dlVars, fsVars>>

\* main_flow.py:49-58  run_extraction up to the `async with`; the batch folder of line 56
\* and the QBClient of line 58 are taken to be created without error
RunExtractionBegin ==
    /\ pc = "read"
    /\ IF material_numbers = <<>>
       THEN /\ pc' = "done"
            /\ result' = EmptyRunResult
            /\ UNCHANGED output_folder
       ELSE /\ pc' = "aenter"
            /\ output_folder' = TRUE
            /\ UNCHANGED result
    /\ UNCHANGED <<idsVars, sweepVars, parseVars, reportVars, material_numbers, idx, error, sessVars, idVars, dlVars, fsVars>>

(***************************************************************************)
(* WebScraper.__aenter__ and _login.  An exception raised inside           *)
(* __aenter__ leaves the `async with` statement without __aexit__ being    *)
(* called, and so leaves run_extraction.                                   *)
(***************************************************************************)
\* web_scraper.py:20  self.browser = await uc.start(...)
AEnterStart ==
    /\ pc = "aenter"
    /\ openCount' = openCount + 1
    /\ \E started \in BOOLEAN :
         IF started
         THEN /\ browser' = "running"
              /\ pc' = "aenter_get"
              /\ UNCHANGED <<error, result>>
         ELSE /\ pc' = "done"
              /\ error' = "uc.start failed"
              /\ result' = "raised"
              /\ UNCHANGED browser
    /\ UNCHANGED <<idsVars, sweepVars, parseVars, reportVars, material_numbers, idx, output_folder, entered, stopCount,
                   idVars, dlVars, fsVars>>

\* web_scraper.py:21  self.page = await self.browser.get(login_url)
AEnterGet ==
    /\ pc = "aenter_get"
    /\ \E loaded \in BOOLEAN :
         IF loaded
         THEN /\ pc' = "login_email"
              /\ UNCHANGED <<error, result>>
         ELSE /\ pc' = "done"
              /\ error' = "browser.get failed"
              /\ result' = "raised"
    /\ UNCHANGED <<idsVars, sweepVars, parseVars, reportVars, material_numbers, idx, output_folder, sessVars, idVars, dlVars, fsVars>>

\* LoginStep with the `raise` lost: the missing control is reported and the login goes on
LoginStepGoesOn(here, message, there) ==
    /\ pc = here
    /\ \E found \in BOOLEAN :
         /\ pc' = there
         /\ entered' = (there = "loop")
         /\ error' = IF found THEN error ELSE message
         /\ UNCHANGED result
    /\ UNCHANGED <<idsVars, sweepVars, parseVars, reportVars, material_numbers, idx, output_folder, browser, openCount, stopCount,
                   idVars, dlVars, fsVars>>

\* one control of _login: page.select, `if not ...: raise Exception(message)`, then use it
LoginStep(here, message, there) ==
    /\ pc = here
    /\ \E found \in BOOLEAN :
         IF found
         THEN /\ pc' = there
              /\ entered' = (there = "loop")
              /\ UNCHANGED <<error, result>>
         ELSE /\ pc' = "done"
              /\ error' = message
              /\ result' = "raised"
              /\ UNCHANGED entered
    /\ UNCHANGED <<idsVars, sweepVars, parseVars, reportVars, material_numbers, idx, output_folder, browser, openCount, stopCount,
                   idVars, dlVars, fsVars>>

\* web_scraper.py:38-42
LoginEmail == LoginStep("login_email", "Email input field not found.", "login_password")

\* web_scraper.py:45-49
LoginPassword == LoginStep("login_password", "Password input field not found.", "login_button")

\* web_scraper.py:52-58 and 22-23: the click, the wait, and __aenter__ returns
LoginButton == LoginStep("login_button", "Login button not found.", "loop")

\* AExit stopping the browser only when the body ended without an exception
AExitOnlyOnSuccess ==
    /\ pc = "aexit"
    /\ IF browser # "none" /\ error = "none"
       THEN /\ browser' = "stopped"
            /\ stopCount' = stopCount + 1
       ELSE UNCHANGED <<browser, stopCount>>
    /\ result' = IF error = "none" THEN "None" ELSE "raised"
    /\ pc' = "done"
    /\ UNCHANGED <<idsVars, sweepVars, parseVars, reportVars, material_numbers, idx, output_folder, entered, openCount, error,
                   idVars, dlVars, fsVars>>

\* web_scraper.py:25-29  __aexit__, after the body ended or raised; it returns None, so
\* an exception of the body goes on to run_extraction's caller
AExit ==
    /\ pc = "aexit"
    /\ IF browser # "none"
       THEN /\ browser' = "stopped"
            /\ stopCount' = stopCount + 1
       ELSE UNCHANGED <<browser, stopCount>>
    /\ result' = IF error = "none" THEN "None" ELSE "raised"
    /\ pc' = "done"
    /\ UNCHANGED <<idsVars, sweepVars, parseVars, reportVars, material_numbers, idx, output_folder, entered, openCount, error,
                   idVars, dlVars, fsVars>>

(***************************************************************************)
(* run_extraction's loop and process_material.  An exception that leaves   *)
(* process_material leaves the loop and the `async with` body.             *)
(***************************************************************************)
\* main_flow.py:61-62 and 14: the next identifier, or the end of the body
LoopNext ==
    /\ pc = "loop"
    /\ IF idx < Len(material_numbers)
       THEN /\ idx' = idx + 1
            /\ pc' = "lookup"
            /\ material_data' = <<>>
            /\ qa_outcome' = "none"
            /\ lookupCalls' = 0
            /\ fetchCalls' = 0
            /\ downloadCalls' = 0
            /\ img' = 0
            /\ backend' = <<>>
            /\ download_log' = <<>>
            /\ image_files' = {}
            /\ retry' = 0
            /\ file_exists' = FALSE
            /\ requests' = 0
            /\ dl_raised' = FALSE
            /\ json_dumped' = <<>>
       ELSE /\ pc' = "aexit"
            /\ UNCHANGED <<idx, idVars, dlVars, json_dumped>>
    /\ UNCHANGED <<idsVars, sweepVars, parseVars, reportVars, material_numbers, output_folder, sessVars, dirs, written, error, result>>

\* main_flow.py:15-16  material_data = client.get_material_details(mano)
Lookup ==
    /\ pc = "lookup"
    /\ lookupCalls' = lookupCalls + 1
    /\ \E compOutcome \in ComponentOutcomes, attOutcome \in AttachmentOutcomes :
         LET details == GetMaterialDetails(mano, compOutcome, attOutcome)
         IN /\ backend' = [component |-> QueryKind(compOutcome),
                          attachments |-> QueryKind(attOutcome),
                          image_url |-> IF details.raised THEN <<>>
                                        ELSE details.value.image_url]
            /\ IF details.raised
               THEN /\ pc' = "aexit"
                    /\ error' = "lookup"
                    /\ UNCHANGED material_data
               ELSE /\ pc' = "mkdir"
                    /\ material_data' = details.value
                    /\ UNCHANGED error
    /\ UNCHANGED <<idsVars, sweepVars, parseVars, reportVars, material_numbers, idx, output_folder, sessVars, qa_outcome, fetchCalls,
                   downloadCalls, img, download_log, image_files, dlVars, fsVars, result>>

\* main_flow.py:18-19  mano_folder.mkdir(parents=True, exist_ok=True)
MakeFolder ==
    /\ pc = "mkdir"
    /\ \E made \in BOOLEAN :
         IF made
         THEN /\ dirs' = dirs \cup {mano}
              /\ pc' = "qa"
              /\ UNCHANGED error
         ELSE /\ pc' = "aexit"
              /\ error' = "mkdir"
              /\ UNCHANGED dirs
    /\ UNCHANGED <<idsVars, sweepVars, parseVars, reportVars, material_numbers, idx, output_folder, sessVars, idVars, dlVars,
                   written, json_dumped, result>>

\* main_flow.py:21-24 and 28-29: `if comp_id:` and int(comp_id)
QaBegin ==
    /\ pc = "qa"
    /\ IF ~Truthy(material_data.component_id)
       THEN /\ pc' = "imgdir"
            /\ UNCHANGED qa_outcome
       ELSE IF ~PyIntOf(material_data.component_id).ok
       THEN /\ pc' = "imgdir"
            /\ qa_outcome' = "invalid component_id"
       ELSE /\ pc' = "qa_fetch"
            /\ UNCHANGED qa_outcome
    /\ UNCHANGED <<idsVars, sweepVars, parseVars, reportVars, material_numbers, idx, output_folder, sessVars, material_data,
                   lookupCalls, backend, download_log, image_files, fetchCalls, downloadCalls, img, dlVars, fsVars, error,
                   result>>

\* QaFetch without the handlers of lines 28-31: a failed fetch or parse leaves process_material
QaFetchUncaught ==
    /\ pc = "qa_fetch"
    /\ fetchCalls' = fetchCalls + 1
    /\ \/ \E html \in HtmlPages :
            /\ material_data' =
                 [material_data EXCEPT !.qa_requirements = <<parse_qa_requirements(html)>>]
            /\ qa_outcome' = "ok"
            /\ pc' = "imgdir"
            /\ UNCHANGED error
       \/ \E failure \in {"fetch failed", "parse failed"} :
            /\ qa_outcome' = failure
            /\ pc' = "aexit"
            /\ error' = failure
            /\ UNCHANGED material_data
    /\ UNCHANGED <<idsVars, sweepVars, parseVars, reportVars, material_numbers, idx, output_folder, sessVars, lookupCalls, backend, download_log, image_files,
                   downloadCalls, img, dlVars, fsVars, result>>

\* main_flow.py:25-27 and 28-31: get_qa_html, parse_qa_requirements, the two handlers
QaFetch ==
    /\ pc = "qa_fetch"
    /\ fetchCalls' = fetchCalls + 1
    /\ \/ \E html \in HtmlPages :
            /\ material_data' =
                 [material_data EXCEPT !.qa_requirements = <<parse_qa_requirements(html)>>]
            /\ qa_outcome' = "ok"
       \/ \E failure \in {"fetch failed", "parse failed"} :
            /\ qa_outcome' = failure
            /\ UNCHANGED material_data
    /\ pc' = "imgdir"
    /\ UNCHANGED <<idsVars, sweepVars, parseVars, reportVars, material_numbers, idx, output_folder, sessVars, lookupCalls, backend, download_log, image_files,
                   downloadCalls, img, dlVars, fsVars, error, result>>

\* main_flow.py:34-35  image_folder.mkdir(parents=True, exist_ok=True)
MakeImageFolder ==
    /\ pc = "imgdir"
    /\ \E made \in BOOLEAN :
         IF made
         THEN /\ pc' = "images"
              /\ UNCHANGED error
         ELSE /\ pc' = "aexit"
              /\ error' = "mkdir"
    /\ UNCHANGED <<idsVars, sweepVars, parseVars, reportVars, material_numbers, idx, output_folder, sessVars, idVars, dlVars, fsVars,
                   result>>

\* the image loop written `enumerate(...)` without start=1: files numbered from 0
DownloadCallFromZero(i) ==
    [image_url |-> material_data.image_url[i],
     save_path |-> [material |-> mano, folder |-> "images", image |-> i - 1]]

\* main_flow.py:36-38  the i-th call: image_url and image_folder / f"image_{i}.png"
DownloadCall(i) ==
    [image_url |-> material_data.image_url[i],
     save_path |-> [material |-> mano, folder |-> "images", image |-> i]]

\* main_flow.py:36-38  the image loop: the next URL goes to download_image
ImageLoop ==
    /\ pc = "images"
    /\ IF img < Len(material_data.image_url)
       THEN /\ img' = img + 1
            /\ downloadCalls' = downloadCalls + 1
            /\ download_log' = Append(download_log, DownloadCall(img + 1))
            /\ pc' = "dl_start"
            /\ retry' = 0
            /\ requests' = 0
            /\ dl_raised' = FALSE
            /\ \E there \in BOOLEAN : file_exists' = there
       ELSE /\ pc' = "save"
            /\ UNCHANGED <<img, downloadCalls, download_log, dlVars>>
    /\ UNCHANGED <<idsVars, sweepVars, parseVars, reportVars, material_numbers, idx, output_folder, sessVars, material_data,
                   qa_outcome, lookupCalls, backend, image_files, fetchCalls, fsVars, error, result>>

(***************************************************************************)
(* WebScraper.download_image: everything from line 80 on runs inside       *)
(* `try: ... except Exception`, so nothing it raises leaves the method.    *)
(***************************************************************************)
\* web_scraper.py:82-86  set_download_path, page.get(image_url), the wait; retry = 0
DownloadStart ==
    /\ pc = "dl_start"
    /\ \/ /\ dl_raised' = TRUE
          /\ pc' = "dl_ret"
          /\ UNCHANGED file_exists
       \/ /\ \E arrived \in BOOLEAN : file_exists' = (file_exists \/ arrived)
          /\ pc' = "dl_loop"
          /\ UNCHANGED dl_raised
    /\ UNCHANGED <<idsVars, sweepVars, parseVars, reportVars, material_numbers, idx, output_folder, sessVars, idVars, retry, requests,
                   fsVars, error, result>>

\* the loop condition written `retry <= 5`
DownloadShouldRetryOffByOne == ~file_exists /\ retry <= MaxRetry

\* web_scraper.py:87  the loop condition
DownloadShouldRetry == ~file_exists /\ retry < MaxRetry

\* web_scraper.py:87-94  one turn of the retry loop, or the end of the loop
DownloadLoop ==
    /\ pc = "dl_loop"
    /\ IF DownloadShouldRetry
       THEN /\ requests' = requests + 1
            /\ \/ /\ dl_raised' = TRUE
                  /\ pc' = "dl_ret"
                  /\ UNCHANGED <<retry, file_exists>>
               \/ /\ \E arrived \in BOOLEAN : file_exists' = arrived
                  /\ retry' = retry + 1
                  /\ pc' = "dl_loop"
                  /\ UNCHANGED dl_raised
       ELSE /\ pc' = "dl_ret"
            /\ UNCHANGED dlVars
    /\ UNCHANGED <<idsVars, sweepVars, parseVars, reportVars, material_numbers, idx, output_folder, sessVars, idVars, fsVars, error,
                   result>>

\* web_scraper.py:94-97  download_image returns to the image loop
DownloadReturn ==
    /\ pc = "dl_ret"
    /\ pc' = "images"
    /\ image_files' = IF file_exists THEN image_files \cup {img} ELSE image_files
    /\ UNCHANGED <<idsVars, sweepVars, parseVars, reportVars, material_numbers, idx, output_folder, sessVars, material_data,
                   qa_outcome, lookupCalls, fetchCalls, downloadCalls, img, backend, download_log,
                   dlVars, fsVars, error, result>>

\* a dump that leaves out the URL of the last image when its file did not arrive
JsonDumpDownloadedOnly(m) ==
    [material_number |-> m.material_number,
     component_id |-> m.component_id,
     cost |-> m.cost,
     supplier_name |-> m.supplier_name,
     image_url |-> IF file_exists THEN m.image_url
                   ELSE SubSeq(m.image_url, 1, Len(m.image_url) - 1),
     qa_requirements |-> m.qa_requirements]

\* json.dump(material_data, f, indent=4): the object written, key by key
JsonDump(m) ==
    [material_number |-> m.material_number,
     component_id |-> m.component_id,
     cost |-> m.cost,
     supplier_name |-> m.supplier_name,
     image_url |-> m.image_url,
     qa_requirements |-> m.qa_requirements]

\* Save with the failure of open/json.dump swallowed: the identifier ends without a
\* snapshot and the loop goes on
SaveGoesOnUnwritten ==
    /\ pc = "save"
    /\ \E saved \in BOOLEAN :
         IF saved
         THEN /\ written' = Append(written, mano)
              /\ json_dumped' = <<JsonDump(material_data)>>
         ELSE UNCHANGED <<written, json_dumped>>
    /\ pc' = "finished"
    /\ UNCHANGED <<idsVars, sweepVars, parseVars, reportVars, material_numbers, idx, output_folder, sessVars, idVars, dlVars, dirs,
                   error, result>>

\* main_flow.py:41-43  open the snapshot file and dump material_data into it
Save ==
    /\ pc = "save"
    /\ \E saved \in BOOLEAN :
         IF saved
         THEN /\ written' = Append(written, mano)
              /\ json_dumped' = <<JsonDump(material_data)>>
              /\ pc' = "finished"
              /\ UNCHANGED error
         ELSE /\ pc' = "aexit"
              /\ error' = "save"
              /\ UNCHANGED <<written, json_dumped>>
    /\ UNCHANGED <<idsVars, sweepVars, parseVars, reportVars, material_numbers, idx, output_folder, sessVars, idVars, dlVars, dirs,
                   result>>

\* process_material closing the browser when it is done with its identifier
FinishedClosesSession ==
    /\ pc = "finished"
    /\ pc' = "loop"
    /\ browser' = "stopped"
    /\ stopCount' = stopCount + 1
    /\ UNCHANGED <<idsVars, sweepVars, parseVars, reportVars, material_numbers, idx, output_folder, entered,
                   openCount, idVars, dlVars, fsVars, error, result>>

\* main_flow.py:44  process_material returns
Finished ==
    /\ pc = "finished"
    /\ pc' = "loop"
    /\ UNCHANGED <<idsVars, sweepVars, parseVars, reportVars, material_numbers, idx, output_folder, sessVars, idVars, dlVars, fsVars,
                   error, result>>

NextRun ==
    \/ RunExtractionBegin
    \/ AEnterStart
    \/ AEnterGet
    \/ LoginEmail
    \/ LoginPassword
    \/ LoginButton
    \/ LoopNext
    \/ Lookup
    \/ MakeFolder
    \/ QaBegin
    \/ QaFetch
    \/ MakeImageFolder
    \/ ImageLoop
    \/ DownloadStart
    \/ DownloadLoop
    \/ DownloadReturn
    \/ Save
    \/ Finished
    \/ AExit

Next == NextRun

Spec == Init /\ [][Next]_vars

(***************************************************************************)
(* The identifier source: read_material_numbers_from_excel, in the variant *)
(* main_flow.py imports (read_write_excel.py) and in the variant of the    *)
(* app package (app/read_write_excel.py).  A cell is what pandas read:     *)
(* NaN for an empty cell, a number, or a non-empty text.                   *)
(***************************************************************************)
\* longest text of a cell
MaxCellLen == 2
\* most cells of the identifier column in one sheet
MaxCells == 2
\* most sheets of a workbook
MaxSheets == 2

NaN == [type |-> "nan"]

\* the characters of a cell's text: white space and a digit
CellChars == {" ", "1"}

Whitespace == {" "}

CellValues ==
    {NaN, PyInt(1), PyInt(11)}
      \cup {PyStr(chars) : chars \in SeqsUpTo(CellChars, MaxCellLen) \ {<<>>}}

\* a sheet: whether it has the column config.material_number_field, and that column
Sheets ==
    {[has_column |-> FALSE, cells |-> <<>>]}
      \cup {[has_column |-> TRUE, cells |-> cells] : cells \in SeqsUpTo(CellValues, MaxCells)}

DigitChar(n) ==
    CASE n = 0 -> "0" [] n = 1 -> "1" [] n = 2 -> "2" [] n = 3 -> "3" [] n = 4 -> "4"
      [] n = 5 -> "5" [] n = 6 -> "6" [] n = 7 -> "7" [] n = 8 -> "8" [] n = 9 -> "9"

RECURSIVE IntToChars(_)
IntToChars(n) ==
    IF n < 10 THEN <<DigitChar(n)>> ELSE IntToChars(n \div 10) \o <<DigitChar(n % 10)>>

\* Series.dropna()
DropNa(cells) == SelectSeq(cells, LAMBDA c : c # NaN)

\* Series.astype(str) on one value
AsTypeStr(cell) ==
    IF cell.type = "int" THEN IntToChars(cell.n) ELSE cell.chars

\* str.strip
RECURSIVE LStrip(_)
LStrip(chars) ==
    IF chars # <<>> /\ chars[1] \in Whitespace THEN LStrip(Tail(chars)) ELSE chars

RECURSIVE RStrip(_)
RStrip(chars) ==
    IF chars # <<>> /\ chars[Len(chars)] \in Whitespace
    THEN RStrip(SubSeq(chars, 1, Len(chars) - 1))
    ELSE chars

Strip(chars) == RStrip(LStrip(chars))

\* list(set(xs)): the distinct members of xs, in an order of the set's choosing
RECURSIVE ListOfSet(_)
ListOfSet(S) ==
    IF S = {} THEN <<>>
    ELSE LET x == CHOOSE y \in S : TRUE IN <<x>> \o ListOfSet(S \ {x})

\* read_write_excel.py:17-23  the numbers of all sheets, in sheet order
RECURSIVE CollectRoot(_)
CollectRoot(sheets) ==
    IF sheets = <<>> THEN <<>>
    ELSE LET df == sheets[1]
             numbers == IF df.has_column
                        THEN [k \in 1..Len(DropNa(df.cells)) |-> AsTypeStr(DropNa(df.cells)[k])]
                        ELSE <<>>
         IN numbers \o CollectRoot(Tail(sheets))

\* read_write_excel.py:4-25  read_material_numbers_from_excel
ReadMaterialNumbersRoot(state, sheets) ==
    IF state # "ok" THEN <<>> ELSE ListOfSet(Range(CollectRoot(sheets)))

\* app/read_write_excel.py:23-33  the numbers of all sheets: stripped, the empty ones dropped
RECURSIVE CollectApp(_)
CollectApp(sheets) ==
    IF sheets = <<>> THEN <<>>
    ELSE LET df == sheets[1]
             numbers == IF df.has_column
                        THEN [k \in 1..Len(DropNa(df.cells)) |->
                                Strip(AsTypeStr(DropNa(df.cells)[k]))]
                        ELSE <<>>
         IN SelectSeq(numbers, LAMBDA n : n # <<>>) \o CollectApp(Tail(sheets))

\* app/read_write_excel.py:8-36  read_material_numbers_from_excel
ReadMaterialNumbersApp(state, sheets) ==
    IF state # "ok" THEN <<>> ELSE ListOfSet(Range(CollectApp(sheets)))

\* the run of an orchestrator that is not under way
RunIdle ==
    /\ pc = "idle"
    /\ material_numbers = <<>>
    /\ idx = 0
    /\ output_folder = FALSE
    /\ browser = "none"
    /\ entered = FALSE
    /\ openCount = 0
    /\ stopCount = 0
    /\ material_data = <<>>
    /\ qa_outcome = "none"
    /\ lookupCalls = 0
    /\ fetchCalls = 0
    /\ downloadCalls = 0
    /\ img = 0
    /\ backend = <<>>
    /\ download_log = <<>>
    /\ image_files = {}
    /\ retry = 0
    /\ file_exists = FALSE
    /\ requests = 0
    /\ dl_raised = FALSE
    /\ dirs = {}
    /\ written = <<>>
    /\ json_dumped = <<>>
    /\ error = "none"
    /\ result = "unset"

\* a path that does not exist, a file pandas cannot read, or a workbook of 0..MaxSheets sheets
InitIds ==
    /\ \/ /\ path_state \in {"missing", "unreadable"}
          /\ workbook = <<>>
       \/ /\ path_state = "ok"
          /\ workbook \in SeqsUpTo(Sheets, MaxSheets)
    /\ numbers_root = <<>>
    /\ numbers_app = <<>>
    /\ RunIdle
    /\ SweepIdle
    /\ ParseIdle
    /\ ReportIdle

\* main_flow.py:49 calls read_write_excel.read_material_numbers_from_excel
CallReadRoot ==
    /\ numbers_root = <<>>
    /\ numbers_root' = <<ReadMaterialNumbersRoot(path_state, workbook)>>
    /\ UNCHANGED <<runVars, sweepVars, parseVars, reportVars, path_state, workbook, numbers_app>>

\* a caller of app.read_write_excel.read_material_numbers_from_excel
CallReadApp ==
    /\ numbers_app = <<>>
    /\ numbers_app' = <<ReadMaterialNumbersApp(path_state, workbook)>>
    /\ UNCHANGED <<runVars, sweepVars, parseVars, reportVars, path_state, workbook, numbers_root>>

NextIds ==
    \/ CallReadRoot
    \/ CallReadApp

SpecIds == InitIds /\ [][NextIds]_vars

(***************************************************************************)
(* The retention sweep at the start of frontend.run_extraction             *)
(* (frontend.py:97-110).  A date is <<year, month, day>>; an entry of      *)
(* DOWNLOADS_DIR is a folder or a file whose name starts with a date as    *)
(* strftime("%Y%m%d") writes it, or with a text that is no number.         *)
(***************************************************************************)
\* first day of the days the model covers: they span the turn of a month and a year
FirstDay == <<2023, 12, 22>>
\* number of days the model covers
SweepDays == 20
\* most entries DOWNLOADS_DIR holds before the run adds its own folder
MaxFolders == 2

\* frontend.py:107  `current_date - 7`
RetentionDays == 7

IsLeap(y) == (y % 4 = 0 /\ y % 100 # 0) \/ y % 400 = 0

DaysInMonth(y, m) ==
    IF m = 2 THEN (IF IsLeap(y) THEN 29 ELSE 28)
    ELSE IF m \in {4, 6, 9, 11} THEN 30 ELSE 31

\* the number of a calendar day, counted from 1970-01-01
DaysFromCivil(date) ==
    LET y == IF date[2] <= 2 THEN date[1] - 1 ELSE date[1]
        era == y \div 400
        yoe == y - era * 400
        mp == (date[2] + 9) % 12
        doy == (153 * mp + 2) \div 5 + date[3] - 1
        doe == yoe * 365 + yoe \div 4 - yoe \div 100 + doy
    IN era * 146097 + doe - 719468

\* the calendar day with a given number: the inverse of DaysFromCivil
CivilFromDays(days) ==
    LET z == days + 719468
        era == z \div 146097
        doe == z - era * 146097
        yoe == (doe - doe \div 1460 + doe \div 36524 - doe \div 146096) \div 365
        doy == doe - (365 * yoe + yoe \div 4 - yoe \div 100)
        mp == (5 * doy + 2) \div 153
        d == doy - (153 * mp + 2) \div 5 + 1
        m == IF mp < 10 THEN mp + 3 ELSE mp - 9
        y == yoe + era * 400 + (IF m <= 2 THEN 1 ELSE 0)
    IN <<y, m, d>>

\* the calendar days the model covers
Dates == {CivilFromDays(DaysFromCivil(FirstDay) + k) : k \in 0..(SweepDays - 1)}

\* int(time.strftime("%Y%m%d")) and int(subfolder.name.split("_")[0]) for a dated name
DateNumber(date) == date[1] * 10000 + date[2] * 100 + date[3]

\* the name of an entry: the date it starts with, <<>> when it starts with no number
Entries ==
    {[is_dir |-> TRUE, name |-> name] : name \in Dates \cup {<<>>}}
      \cup {[is_dir |-> FALSE, name |-> FirstDay]}

\* the subsets of S with at most n members
RECURSIVE SubsetsUpTo(_, _)
SubsetsUpTo(S, n) ==
    IF n = 0 THEN {{}}
    ELSE LET smaller == SubsetsUpTo(S, n - 1)
         IN smaller \cup {T \cup {x} : T \in smaller, x \in S}

\* frontend.py:107  `folder_date < current_date - 7`
IsOld(folder_date, today) == folder_date < today - RetentionDays

\* a run starts on one of the days, DOWNLOADS_DIR holding entries of earlier runs
InitSweep ==
    /\ sweep_pc = "stamp"
    /\ stamp_date \in Dates
    /\ current_date = <<>>
    /\ entries \in SubsetsUpTo(Entries, MaxFolders)
    /\ \A e \in entries : e.name # <<>> => DaysFromCivil(e.name) <= DaysFromCivil(stamp_date)
    /\ todo = {}
    /\ removed = {}
    /\ RunIdle
    /\ IdsIdle
    /\ ParseIdle
    /\ ReportIdle

\* frontend.py:97-99  the run's own output folder, named by the time stamp
MakeOutputFolder ==
    /\ sweep_pc = "stamp"
    /\ entries' = entries \cup {[is_dir |-> TRUE, name |-> stamp_date]}
    /\ sweep_pc' = "date"
    /\ UNCHANGED <<runVars, idsVars, parseVars, reportVars, stamp_date, current_date, todo, removed>>

\* frontend.py:102-103  the second reading of the clock (the same day, or the next one
\* when midnight passed since line 97), and DOWNLOADS_DIR.iterdir()
ReadCurrentDate ==
    /\ sweep_pc = "date"
    /\ \E today \in Dates :
         /\ DaysFromCivil(today) - DaysFromCivil(stamp_date) \in {0, 1}
         /\ current_date' = today
    /\ todo' = entries
    /\ sweep_pc' = "sweep"
    /\ UNCHANGED <<runVars, idsVars, parseVars, reportVars, stamp_date, entries, removed>>

\* frontend.py:103-110  one turn of the loop, on any entry not visited yet
SweepVisit ==
    /\ sweep_pc = "sweep"
    /\ \E subfolder \in todo :
         /\ todo' = todo \ {subfolder}
         /\ IF /\ subfolder.is_dir
               /\ subfolder.name # <<>>
               /\ IsOld(DateNumber(subfolder.name), DateNumber(current_date))
            THEN /\ removed' = removed \cup {subfolder}
                 /\ entries' = entries \ {subfolder}
            ELSE UNCHANGED <<removed, entries>>
    /\ UNCHANGED <<runVars, idsVars, parseVars, reportVars, sweep_pc, stamp_date, current_date>>

\* frontend.py:112  the loop is over, the extraction starts
SweepEnd ==
    /\ sweep_pc = "sweep"
    /\ todo = {}
    /\ sweep_pc' = "swept"
    /\ UNCHANGED <<runVars, idsVars, parseVars, reportVars, stamp_date, current_date, entries, todo, removed>>

NextSweep ==
    \/ MakeOutputFolder
    \/ ReadCurrentDate
    \/ SweepVisit
    \/ SweepEnd

SpecSweep == InitSweep /\ [][NextSweep]_vars

(***************************************************************************)
(* The attribute extractor on its own: parse_qa_requirements called on a   *)
(* page, then on a page of HtmlPages, then on the first page again.  The   *)
(* pages have or lack the table sect_s3 and hold up to two formRow rows,   *)
(* the first of up to MaxTds cells drawn from the shapes the loop tells    *)
(* apart (rows outside the table are what a page without it can hold).     *)
(***************************************************************************)
\* most <td> cells in the row that varies
MaxTds == 2

\* the cells: a text label, filled and empty text cells, checked and unchecked
\* checkbox cells, a cell without a fieldLabel
Tds ==
    {Td("label", "Comments", "", FALSE),
     Td("cell", None, "fragile", FALSE),
     Td("cell", None, "", FALSE),
     Td("", "Drop Test", "", TRUE),
     Td("", "Drop Test", "", FALSE),
     Td("", "Comments", "", FALSE),
     Td("", None, "", FALSE)}

\* a second row that sets names the first row may have set
SecondRow == <<Td("", "Drop Test", "", TRUE), Td("label", "Comments", "", FALSE)>>

ParsePages ==
    {[table |-> t, rows |-> rows] :
       t \in BOOLEAN,
       rows \in {<<>>} \cup {<<r>> : r \in SeqsUpTo(Tds, MaxTds)}
                      \cup {<<r, SecondRow>> : r \in SeqsUpTo(Tds, MaxTds)}}

InitParse ==
    /\ parse_pc = "first"
    /\ parse_calls = <<>>
    /\ RunIdle
    /\ IdsIdle
    /\ SweepIdle
    /\ ReportIdle

\* app/html_parser.py:4-38  one call: the page given, the mapping returned
ParseCall(html) ==
    parse_calls' = Append(parse_calls, [html |-> html, result |-> parse_qa_requirements(html)])

ParseFirst ==
    /\ parse_pc = "first"
    /\ \E html \in ParsePages : ParseCall(html)
    /\ parse_pc' = "other"
    /\ UNCHANGED <<runVars, idsVars, sweepVars, reportVars>>

ParseOther ==
    /\ parse_pc = "other"
    /\ \E html \in HtmlPages : ParseCall(html)
    /\ parse_pc' = "again"
    /\ UNCHANGED <<runVars, idsVars, sweepVars, reportVars>>

ParseAgain ==
    /\ parse_pc = "again"
    /\ ParseCall(parse_calls[1].html)
    /\ parse_pc' = "done"
    /\ UNCHANGED <<runVars, idsVars, sweepVars, reportVars>>

NextParse ==
    \/ ParseFirst
    \/ ParseOther
    \/ ParseAgain

SpecParse == InitParse /\ [][NextParse]_vars

(***************************************************************************)
(* The snapshot file.  json.dump writes the dict as JSON text, json.load   *)
(* reads the text back: a JSON value is null, a boolean, a number, a       *)
(* string, an array, or an object whose members keep their order.          *)
(***************************************************************************)
JsonNull == [json |-> "null"]
JsonBool(b) == [json |-> "boolean", b |-> b]
JsonNumber(n) == [json |-> "number", n |-> n]
JsonString(s) == [json |-> "string", s |-> s]
JsonArray(items) == [json |-> "array", items |-> items]
JsonObject(members) == [json |-> "object", members |-> members]

\* a dump that writes numbers as text, as json.dump(..., default=str) style
\* conversions do
PyToJsonNumbersAsText(v) ==
    CASE v.type = "none" -> JsonNull
      [] v.type = "int" -> JsonString(IntToChars(v.n))
      [] v.type = "str" -> JsonString(v.chars)

\* json.dump of a field value: None, int, str
PyToJson(v) ==
    CASE v.type = "none" -> JsonNull
      [] v.type = "int" -> JsonNumber(v.n)
      [] v.type = "str" -> JsonString(v.chars)

\* json.dump of one QA attribute value: bool or str
QaValueToJson(v) == IF v.type = "bool" THEN JsonBool(v.b) ELSE JsonString(v.s)

\* json.dump of qa_requirements: None or the dict, member by member
QaToJson(qa) ==
    IF qa = NoQa THEN JsonNull
    ELSE JsonObject([i \in 1..Len(qa[1]) |-> <<qa[1][i][1], QaValueToJson(qa[1][i][2])>>])

\* main_flow.py:42-43  json.dump(material_data, f, indent=4): the text of the file
JsonEncode(obj) ==
    JsonObject(<<
      <<"material_number", JsonString(obj.material_number)>>,
      <<"component_id", PyToJson(obj.component_id)>>,
      <<"cost", PyToJson(obj.cost)>>,
      <<"supplier_name", PyToJson(obj.supplier_name)>>,
      <<"image_url", JsonArray([i \in 1..Len(obj.image_url) |-> JsonString(obj.image_url[i])])>>,
      <<"qa_requirements", QaToJson(obj.qa_requirements)>> >>)

\* json.load of a scalar member: None, int, str
JsonToPy(j) ==
    CASE j.json = "null" -> PyNone
      [] j.json = "number" -> PyInt(j.n)
      [] j.json = "string" -> PyStr(j.s)

\* json.load of the qa_requirements member: None or a dict of bool and str
JsonToQa(j) ==
    IF j.json = "null" THEN NoQa
    ELSE <<[i \in 1..Len(j.members) |->
              <<j.members[i][1],
                IF j.members[i][2].json = "boolean" THEN QaBool(j.members[i][2].b)
                ELSE QaText(j.members[i][2].s)>>]>>

\* the member of the loaded object under key, <<>> when the object has none
JsonMember(data, key) ==
    IF \E i \in 1..Len(data.members) : data.members[i][1] = key
    THEN <<data.members[CHOOSE i \in 1..Len(data.members) : data.members[i][1] = key][2]>>
    ELSE <<>>

\* result_to_excel.py:78-82  data.get(key) of a scalar field, None when missing
DataGet(data, key) ==
    IF JsonMember(data, key) = <<>> THEN PyNone ELSE JsonToPy(JsonMember(data, key)[1])

\* result_to_excel.py:83  data.get("qa_requirements")
DataGetQa(data) ==
    IF JsonMember(data, "qa_requirements") = <<>> THEN NoQa
    ELSE JsonToQa(JsonMember(data, "qa_requirements")[1])

(***************************************************************************)
(* The report compiler (result_to_excel.py).                               *)
(***************************************************************************)
\* "\n".join(lines)
RECURSIVE Join(_)
Join(lines) ==
    IF lines = <<>> THEN ""
    ELSE IF Len(lines) = 1 THEN lines[1]
    ELSE lines[1] \o "\n" \o Join(Tail(lines))

\* result_to_excel.py:41-44  the names whose value is the boolean True, in dict order
RECURSIVE TrueTests(_)
TrueTests(d) ==
    IF d = <<>> THEN <<>>
    ELSE IF d[1][2] = QaBool(TRUE) THEN <<d[1][1]>> \o TrueTests(Tail(d))
    ELSE TrueTests(Tail(d))

\* qa_reqs.get(name, ""), the default as text
QaGet(d, name) ==
    IF \E i \in 1..Len(d) : d[i][1] = name
    THEN d[CHOOSE i \in 1..Len(d) : d[i][1] = name][2]
    ELSE QaText("")

\* result_to_excel.py:45-48  one of the two named attributes: nothing to add when it
\* is "" or missing, the line name + text when it is a text, TypeError when it is
\* a boolean (True != "" and False != "" hold, and str + bool raises)
NamedLine(d, name) ==
    LET value == QaGet(d, name)
    IN IF value = QaText("") THEN [raised |-> FALSE, lines |-> <<>>]
       ELSE IF value.type = "bool" THEN [raised |-> TRUE]
       ELSE [raised |-> FALSE, lines |-> <<name \o value.s>>]

\* format_qa_requirements without the guard of lines 39-40: None.items() raises
format_qa_requirementsNoneUnchecked(qa_reqs) ==
    IF qa_reqs = NoQa THEN [raised |-> TRUE]
    ELSE LET d == qa_reqs[1]
             additional == NamedLine(d, "Additional Tests")
             comments == NamedLine(d, "Comments")
         IN IF additional.raised \/ comments.raised THEN [raised |-> TRUE]
            ELSE [raised |-> FALSE,
                  value |-> Join(TrueTests(d) \o additional.lines \o comments.lines)]

\* result_to_excel.py:37-50  format_qa_requirements; raised: the TypeError of 46 / 48
format_qa_requirements(qa_reqs) ==
    IF qa_reqs = NoQa \/ qa_reqs[1] = <<>> THEN [raised |-> FALSE, value |-> ""]
    ELSE LET d == qa_reqs[1]
             additional == NamedLine(d, "Additional Tests")
             comments == NamedLine(d, "Comments")
         IN IF additional.raised \/ comments.raised THEN [raised |-> TRUE]
            ELSE [raised |-> FALSE,
                  value |-> Join(TrueTests(d) \o additional.lines \o comments.lines)]

\* the least element of a non-empty set of numbers
Min(S) == CHOOSE x \in S : \A y \in S : x <= y

\* result_to_excel.py:73-75  the first file of sorted(images/*): image_<i>.png with
\* the least i (up to nine images name order is number order), <<>> for None
FirstImage(material_dir) ==
    IF material_dir.image_files = {} THEN <<>> ELSE <<Min(material_dir.image_files)>>

\* a material folder: its name, the snapshot file in it (<<>> when there is none;
\* a file is text json.load accepts or not) and the image files of images/.
\* record is not on disk: it remembers the Material Record the folder was made for
\* (<<>> when no snapshot of it was written)
MaterialDir(name, record, snapshot, files) ==
    [name |-> name, record |-> record, snapshot |-> snapshot, image_files |-> files]

\* the snapshot file json.dump leaves for the object obj
SnapshotFile(obj) == <<[readable |-> TRUE, text |-> JsonEncode(obj)]>>

\* a file json.load raises on (cut short, or not JSON)
GarbledFile == <<[readable |-> FALSE, text |-> JsonNull]>>

\* result_to_excel.py:59-85  collect_material_entry: None (<<>>), an entry, or the
\* TypeError of format_qa_requirements, which line 83 does not catch
collect_material_entry(material_dir) ==
    IF material_dir.snapshot = <<>> \/ ~material_dir.snapshot[1].readable
    THEN [raised |-> FALSE, entry |-> <<>>]
    ELSE LET data == material_dir.snapshot[1].text
             qa_text == format_qa_requirements(DataGetQa(data))
         IN IF qa_text.raised THEN [raised |-> TRUE]
            ELSE [raised |-> FALSE,
                  entry |-> <<[material_number |-> DataGet(data, "material_number"),
                               component_id |-> DataGet(data, "component_id"),
                               cost |-> DataGet(data, "cost"),
                               supplier_name |-> DataGet(data, "supplier_name"),
                               supplier_material_no |-> DataGet(data, "supplier_material_no"),
                               qa_text |-> qa_text.value,
                               image_path |-> FirstImage(material_dir)]>>]

\* result_to_excel.py:121-143  the row of one entry: columns A-F, and the picture
\* anchored in G when the entry has an image and openpyxl could embed it
SummaryRow(entry, embedded) ==
    [material_number |-> entry.material_number,
     component_id |-> entry.component_id,
     cost |-> entry.cost,
     supplier_name |-> entry.supplier_name,
     supplier_material_no |-> entry.supplier_material_no,
     qa_text |-> entry.qa_text,
     image |-> IF entry.image_path # <<>> /\ embedded THEN entry.image_path ELSE <<>>]

(***************************************************************************)
(* generate_reports on the folder of one run, as frontend.py:124 calls it: *)
(* base_download_dir holds one batch folder with 0..MaxDirs material       *)
(* folders left by process_material, each with its snapshot, without one   *)
(* (the dump failed) or with one json.load cannot read.  wb.save and the   *)
(* mkdir of line 157 are taken to succeed.                                 *)
(***************************************************************************)
\* most material folders in the batch folder
MaxDirs == 2

BatchName == "batch"

\* the material table answering with no rows, with a full row, with a text reference
ReportComponentAnswers ==
    {[status |-> "ok", has_fields |-> TRUE, fields |-> ComponentFields, data |-> d] :
       d \in {<<>>,
              <<[id \in {"6", "7", "8"} |->
                   CASE id = "6" -> PyInt(12)
                     [] id = "7" -> PyStr(<<"9", ".", "5">>)
                     [] id = "8" -> PyStr(<<"A", "C", "M", "E">>)]>>,
              <<[id \in {"6"} |-> PyStr(<<"a", "b">>)]>>}}

\* the attachment table answering with no rows
NoAttachments ==
    [status |-> "ok", has_fields |-> TRUE, fields |-> AttachmentFields, data |-> <<>>]

\* further pages of the portal: "Comments" as a checkbox, and two text attributes
ReportPages ==
    HtmlPages \cup
    {[table |-> TRUE,
      rows |-> <<<<Td("", "Drop Test", "", TRUE), Td("", "Comments", "", FALSE)>>>>],
     [table |-> TRUE,
      rows |-> <<<<Td("label", "Additional Tests", "", FALSE), Td("cell", None, "x-ray", FALSE)>>,
                 <<Td("label", "Weight", "", FALSE), Td("cell", None, "5kg", FALSE)>>>>]}

\* what process_material can leave in qa_requirements
ReportQaResults == {NoQa} \cup {<<parse_qa_requirements(html)>> : html \in ReportPages}

\* the Material Records process_material can have for mano when it dumps: the QA
\* mapping is only ever attached to a truthy component reference that parses
SnapshotRecords(material_number) ==
    {r \in {[GetMaterialDetails(material_number, c, NoAttachments).value
               EXCEPT !.qa_requirements = q] :
               c \in ReportComponentAnswers, q \in ReportQaResults} :
       r.qa_requirements # NoQa
          => Truthy(r.component_id) /\ PyIntOf(r.component_id).ok}

\* what the downloads can have left in images/: nothing, one image, all of them
ImageFileSets == {{}, 1..MaxImages} \cup {{i} : i \in 1..MaxImages}

\* the folders process_material can have left for mano
MaterialDirs(material_number) ==
    {MaterialDir(material_number, <<>>, snapshot, files) :
       snapshot \in {<<>>, GarbledFile}, files \in ImageFileSets}
      \cup {MaterialDir(material_number, <<r>>, SnapshotFile(JsonDump(r)), files) :
               r \in SnapshotRecords(material_number), files \in ImageFileSets}

\* the material folders of a batch, sorted by name: n folders, for the first n identifiers
RECURSIVE BatchesOf(_)
BatchesOf(n) ==
    IF n = 0 THEN {<<>>}
    ELSE {Append(ds, d) : ds \in BatchesOf(n - 1), d \in MaterialDirs(IdPool[n])}

InitReport ==
    /\ report_pc = "start"
    /\ \E n \in 0..MaxDirs :
         base \in {<<[name |-> BatchName, material_dirs |-> ds]>> : ds \in BatchesOf(n)}
    /\ source_i = 0
    /\ material_i = 0
    /\ report_entries = <<>>
    /\ reports = {}
    /\ report_error = "none"
    /\ RunIdle
    /\ IdsIdle
    /\ SweepIdle
    /\ ParseIdle

\* the source folder the loop of line 159 is at
source_dir == base[source_i]

\* result_to_excel.py:154-157  the base exists; the summary folder is made in it
\* ("batch" sorts before "summary")
GenerateReportsBegin ==
    /\ report_pc = "start"
    /\ base' = Append(base, [name |-> "summary", material_dirs |-> <<>>])
    /\ report_pc' = "source"
    /\ UNCHANGED <<runVars, idsVars, sweepVars, parseVars, source_i, material_i, report_entries,
                   reports, report_error>>

\* result_to_excel.py:159-170  the next source folder: skipped when it has no
\* material folders, else entries = []
NextSource ==
    /\ report_pc = "source"
    /\ IF source_i < Len(base)
       THEN /\ source_i' = source_i + 1
            /\ IF base[source_i + 1].material_dirs = <<>>
               THEN /\ report_pc' = "source"
                    /\ UNCHANGED <<material_i, report_entries>>
               ELSE /\ report_pc' = "collect"
                    /\ material_i' = 0
                    /\ report_entries' = <<>>
       ELSE /\ report_pc' = "done"
            /\ UNCHANGED <<source_i, material_i, report_entries>>
    /\ UNCHANGED <<runVars, idsVars, sweepVars, parseVars, base, reports, report_error>>

\* result_to_excel.py:171-174  the next material folder: its entry is appended, a
\* None is skipped; an exception leaves collect_material_entry and generate_reports
CollectNext ==
    /\ report_pc = "collect"
    /\ IF material_i < Len(source_dir.material_dirs)
       THEN LET collected == collect_material_entry(source_dir.material_dirs[material_i + 1])
            IN /\ material_i' = material_i + 1
               /\ IF collected.raised
                  THEN /\ report_error' = "TypeError"
                       /\ report_pc' = "done"
                       /\ UNCHANGED report_entries
                  ELSE /\ report_entries' = report_entries \o collected.entry
                       /\ report_pc' = "collect"
                       /\ UNCHANGED report_error
       ELSE /\ report_pc' = "write"
            /\ UNCHANGED <<material_i, report_entries, report_error>>
    /\ UNCHANGED <<runVars, idsVars, sweepVars, parseVars, base, source_i, reports>>

\* result_to_excel.py:176  summary / f"{source_dir.name}_summary.xlsx"
SummaryPath(name) == [folder |-> "summary", file |-> name \o "_summary.xlsx"]

\* result_to_excel.py:176-177 and 88-146  write_summary_excel: nothing is written
\* for no entries; else one row per entry, in order, each image embedded or not
WriteSummary ==
    /\ report_pc = "write"
    /\ IF report_entries = <<>>
       THEN UNCHANGED reports
       ELSE \E embedded \in [1..Len(report_entries) -> BOOLEAN] :
              reports' = reports \cup
                {[path |-> SummaryPath(source_dir.name),
                  rows |-> [k \in 1..Len(report_entries) |->
                              SummaryRow(report_entries[k], embedded[k])]]}
    /\ report_pc' = "source"
    /\ UNCHANGED <<runVars, idsVars, sweepVars, parseVars, base, source_i, material_i,
                   report_entries, report_error>>

NextReport ==
    \/ GenerateReportsBegin
    \/ NextSource
    \/ CollectNext
    \/ WriteSummary

SpecReport == InitReport /\ [][NextReport]_vars

TypeOK ==
    /\ pc \in {"read", "aenter", "aenter_get", "login_email", "login_password",
               "login_button", "loop", "lookup", "mkdir", "qa", "qa_fetch", "imgdir",
               "images", "dl_start", "dl_loop", "dl_ret", "save", "finished", "aexit",
               "done"}
    /\ idx \in 0..Len(material_numbers)
    /\ browser \in {"none", "running", "stopped"}
    /\ img \in 0..MaxImages
    /\ result \in {"unset", "None", "raised"}
    /\ backend # <<>> =>
         /\ backend.component \in {"error", "no rows", "no fields", "rows"}
         /\ backend.attachments \in {"error", "no rows", "no fields", "rows"}
         /\ Len(backend.image_url) <= MaxImages
    /\ Len(download_log) <= MaxImages
    /\ image_files \subseteq 1..MaxImages
    /\ ParseIdle
    /\ ReportIdle

(***************************************************************************)
(* The claims about one orchestrator run, checked under Spec.              *)
(***************************************************************************)

\* C1: a failure while processing one identifier never aborts the run: when the run
\* of an opened session has ended, every identifier of the list, the ones after a
\* failing identifier included, was handed to process_material.
C1_FailureNeverAbortsRun ==
    (pc = "done" /\ entered) => idx = Len(material_numbers)

OpenFailuresAfterLaunch ==
    {"browser.get failed", "Email input field not found.",
     "Password input field not found.", "Login button not found."}

\* the three login controls of _login
LoginControlErrors ==
    {"Email input field not found.", "Password input field not found.",
     "Login button not found."}

\* C3: when open() fails after the browser was launched, the session ends closed:
\* the launched browser is stopped, never left running.
C3_FailedOpenEndsClosed ==
    (pc = "done" /\ error \in OpenFailuresAfterLaunch) => browser = "stopped"

\* C4 as stated: when download_image returns and the destination file never came to
\* exist, the download request was issued exactly 5 times and nothing was raised.
C4_ExactlyFiveRequests ==
    (pc = "dl_ret" /\ ~file_exists) => (requests = 5 /\ error = "none")

\* C4 as amended: when download_image returns and the destination file never came to
\* exist, the download request was issued exactly 5 times if no step of the download
\* raised, and at most 5 times if one did (the handler ends the attempts there); in
\* both cases nothing was raised to the caller and the run has not ended.
C4_RequestsOnPermanentFailure ==
    (pc = "dl_ret" /\ ~file_exists) =>
        /\ error = "none"
        /\ result = "unset"
        /\ ~dl_raised => requests = 5
        /\ dl_raised => requests <= 5

\* C4's case: five requests were issued, none raised, and the file is still absent.
C4_Witness ==
    pc = "dl_ret" /\ ~file_exists /\ ~dl_raised /\ requests = 5 /\ retry = 5

\* the ways lines 21-31 end without QA attributes although a component reference was there
QaFailures == {"invalid component_id", "fetch failed", "parse failed"}

\* C5: for an identifier whose component reference does not parse, or whose QA fetch or
\* parse fails, the failure never leaves process_material (the only exceptions that can
\* end the identifier afterwards are those of the images folder and of the snapshot file),
\* the folder of the identifier exists, every image URL has gone to download_image by the
\* time the snapshot is due, and the snapshot written has qa_requirements null.
C5_QaFailureStillPersists ==
    qa_outcome \in QaFailures =>
        /\ error \in {"none", "mkdir", "save"}
        /\ mano \in dirs
        /\ material_data.qa_requirements = NoQa
        /\ pc \in {"save", "finished"} => downloadCalls = Len(material_data.image_url)
        /\ pc = "finished" =>
              /\ written # <<>>
              /\ written[Len(written)] = mano
              /\ json_dumped # <<>>
              /\ json_dumped[1].qa_requirements = NoQa
              /\ json_dumped[1].material_number = mano

\* C5's case: a component reference that is no integer, an image gone to download_image,
\* and the snapshot of the identifier written.
C5_Witness ==
    /\ pc = "finished"
    /\ qa_outcome = "invalid component_id"
    /\ downloadCalls >= 1
    /\ json_dumped # <<>>

\* C6: an error raised by the record lookup is caught inside the identifier's
\* processing step: no lookup exception ever leaves process_material and ends the run.
C6_LookupErrorCaught ==
    error # "lookup"

\* C7: the orchestrator's result tells a run that processed at least one identifier
\* from a run that processed none: it differs from what the empty run returns.
C7_ResultTellsProcessedFromEmpty ==
    (pc = "done" /\ error = "none" /\ Len(written) >= 1) => result # EmptyRunResult

\* C8: when one of the three login controls cannot be located, open() fails and the
\* run ends there: no identifier is looked up, no item page fetched, no image
\* downloaded, no identifier folder made and no snapshot written.
C8_LoginFailureIsFatal ==
    error \in LoginControlErrors =>
        /\ pc = "done"
        /\ result = "raised"
        /\ ~entered
        /\ idx = 0
        /\ lookupCalls = 0
        /\ fetchCalls = 0
        /\ downloadCalls = 0
        /\ dirs = {}
        /\ written = <<>>

\* C8's case: the submit control, the last of the three, was not found.
C8_Witness ==
    error = "Login button not found." /\ pc = "done" /\ material_numbers # <<>>

(***************************************************************************)
(* The claim about the identifier source, checked under SpecIds.           *)
(***************************************************************************)
\* what C9 asks of a returned list: no entry twice, no empty text, and no two entries
\* that differ only by white space at their ends
DeduplicatedIdentifiers(list) ==
    /\ \A i \in 1..Len(list) : list[i] # <<>>
    /\ \A i, j \in 1..Len(list) : i # j => Strip(list[i]) # Strip(list[j])

\* C9: for every workbook, the list the identifier source returns to the orchestrator
\* (read_write_excel.py, imported at main_flow.py:8) has no duplicates and no empty
\* strings, values differing only by leading/trailing white space counting as one.
C9_IdentifiersDeduplicated ==
    numbers_root # <<>> => DeduplicatedIdentifiers(numbers_root[1])

\* the same property for the variant of the app package, which strips each value and
\* drops the empty ones before building the set
C9_AppIdentifiersDeduplicated ==
    numbers_app # <<>> => DeduplicatedIdentifiers(numbers_app[1])

(***************************************************************************)
(* The claim about the retention sweep, checked under SpecSweep.           *)
(***************************************************************************)
\* the dated folders the sweep found in DOWNLOADS_DIR
DatedFolders == {e \in entries \cup removed : e.is_dir /\ e.name # <<>>}

\* C10: when the sweep is over, a batch folder has been deleted if and only if the
\* calendar date its name starts with is more than 7 days before the current date; a
\* folder dated 7 days ago or less is still there, across month and year ends too.
C10_SweepDeletesIffOlderThan7Days ==
    sweep_pc = "swept" =>
        \A e \in DatedFolders :
            e \in removed <=> DaysFromCivil(current_date) - DaysFromCivil(e.name) > 7

(***************************************************************************)
(* C13.  A backend query that fails in transport or comes back non-2xx     *)
(* never makes the lookup raise, and leaves its part of the result as      *)
(* empty as a query that succeeded without rows does: no component         *)
(* fields, no image URLs.  The only lookup that raises is one whose answer *)
(* has rows and no fields array.                                           *)
(***************************************************************************)
EmptyAnswer(kind) == kind \in {"error", "no rows"}

\* C13: a failed query never raises out of the lookup and leaves the same empty result
\* as a query without rows
C13_FailedQueryYieldsEmptyResult ==
    backend # <<>> =>
      /\ (EmptyAnswer(backend.component) /\ EmptyAnswer(backend.attachments))
            => /\ error # "lookup"
               /\ material_data # <<>>
      /\ error = "lookup" => "no fields" \in {backend.component, backend.attachments}
      /\ (material_data # <<>> /\ EmptyAnswer(backend.component))
            => /\ material_data.component_id = PyNone
               /\ material_data.cost = PyNone
               /\ material_data.supplier_name = PyNone
      /\ (material_data # <<>> /\ EmptyAnswer(backend.attachments))
            => /\ material_data.image_url = <<>>
               /\ backend.image_url = <<>>

\* both queries of one lookup failed and process_material goes on with the empty record
C13_Witness ==
    /\ pc = "mkdir"
    /\ backend # <<>>
    /\ backend.component = "error"
    /\ backend.attachments = "error"
    /\ material_data.component_id = PyNone
    /\ material_data.image_url = <<>>

(***************************************************************************)
(* C14.  Every snapshot written is one JSON object that has the keys       *)
(* material_number, component_id, cost, supplier_name,                     *)
(* supplier_material_no and qa_requirements, and its qa_requirements is    *)
(* null or a flat mapping from names to booleans and texts.                *)
(***************************************************************************)
SnapshotKeys ==
    {"material_number", "component_id", "cost", "supplier_name", "supplier_material_no",
     "qa_requirements"}

FlatMapping(qa) ==
    \A i \in 1..Len(qa) : qa[i][2].type \in {"bool", "text"}

\* C14: every written snapshot has the six keys and a null or flat qa_requirements
C14_SnapshotHasTheSixKeys ==
    json_dumped # <<>> =>
      /\ SnapshotKeys \subseteq DOMAIN json_dumped[1]
      /\ \/ json_dumped[1].qa_requirements = NoQa
         \/ FlatMapping(json_dumped[1].qa_requirements[1])

(***************************************************************************)
(* C16.  Identifiers are processed one at a time in iteration order: the   *)
(* snapshots written are those of the first identifiers of the list, in    *)
(* list order; while identifier number idx is in progress the snapshots of *)
(* all idx - 1 identifiers before it are written and its own is not; so    *)
(* the lookup for an identifier never starts before the snapshot of the    *)
(* one before it was written.                                              *)
(***************************************************************************)
InProgress ==
    pc \in {"lookup", "mkdir", "qa", "qa_fetch", "imgdir", "images", "dl_start", "dl_loop",
            "dl_ret", "save"}

\* C16: one identifier at a time, snapshots written in list order, no lookup before
\* the snapshot of the identifier before it
C16_OneIdentifierAtATimeInOrder ==
    /\ Len(written) <= idx
    /\ written = SubSeq(material_numbers, 1, Len(written))
    /\ InProgress => Len(written) = idx - 1
    /\ pc = "finished" => Len(written) = idx
    /\ lookupCalls > 0 => Len(written) >= idx - 1

\* the lookup for the second identifier is about to start, the first one's snapshot written
C16_Witness ==
    /\ pc = "lookup"
    /\ idx = 2
    /\ written = <<material_numbers[1]>>

(***************************************************************************)
(* C17.  The image URL list of a written snapshot is the list the record   *)
(* lookup returned, whether each download left its file or not: a failed   *)
(* download shows only in the images folder.                               *)
(***************************************************************************)
C17_SnapshotKeepsEveryImageUrl ==
    json_dumped # <<>> => json_dumped[1].image_url = backend.image_url

\* a snapshot written after none of the downloads of its URLs left a file
C17_Witness ==
    /\ pc = "finished"
    /\ json_dumped # <<>>
    /\ Len(backend.image_url) = MaxImages
    /\ img = MaxImages
    /\ image_files = {}
    /\ json_dumped[1].image_url = backend.image_url

(***************************************************************************)
(* C19.  Once the QA step of an identifier is over, fetchItemPage          *)
(* (get_qa_html) has been called exactly once if the lookup returned a     *)
(* component reference that parses as an integer, the value 0 included,    *)
(* and not at all if there is no reference or it does not parse.           *)
(***************************************************************************)
QaStepOver ==
    pc \in {"imgdir", "images", "dl_start", "dl_loop", "dl_ret", "save", "finished"}

\* C19: get_qa_html was called once if the reference parses as an integer, else never
C19_FetchOnceIffReferenceParses ==
    QaStepOver =>
      fetchCalls = IF PyIntOf(material_data.component_id).ok THEN 1 ELSE 0

(***************************************************************************)
(* C20.  For an identifier whose lookup returned the URLs u_1..u_n,        *)
(* download_image is called in list order, the i-th call with u_i and the  *)
(* file image_i of the identifier's images folder; once the image loop is  *)
(* over, and so before the snapshot is written, exactly n calls were       *)
(* made, whether the earlier downloads left a file or not.                 *)
(***************************************************************************)
ExpectedCall(i) ==
    [image_url |-> backend.image_url[i],
     save_path |-> [material |-> mano, folder |-> "images", image |-> i]]

\* C20: the download calls are the expected ones in list order, all n of them made
\* before the snapshot is written
C20_DownloadsInListOrderBeforeSnapshot ==
    /\ backend = <<>> => download_log = <<>>
    /\ backend # <<>> =>
         /\ Len(download_log) <= Len(backend.image_url)
         /\ downloadCalls = Len(download_log)
         /\ \A i \in 1..Len(download_log) : download_log[i] = ExpectedCall(i)
         /\ pc \in {"save", "finished"} => Len(download_log) = Len(backend.image_url)
         /\ json_dumped # <<>> => Len(download_log) = Len(backend.image_url)

\* the snapshot is written after MaxImages calls, the first of which left no file
C20_Witness ==
    /\ pc = "finished"
    /\ json_dumped # <<>>
    /\ Len(backend.image_url) = MaxImages
    /\ Len(download_log) = MaxImages
    /\ 1 \notin image_files
    /\ MaxImages \in image_files

NoBackendData ==
    /\ backend # <<>>
    /\ EmptyAnswer(backend.component)
    /\ EmptyAnswer(backend.attachments)

NullRecord(material_number) ==
    [material_number |-> material_number,
     component_id |-> PyNone,
     cost |-> PyNone,
     supplier_name |-> PyNone,
     image_url |-> <<>>,
     qa_requirements |-> NoQa]

BlankRow(material_number) ==
    [material_number |-> PyStr(material_number),
     component_id |-> PyNone,
     cost |-> PyNone,
     supplier_name |-> PyNone,
     supplier_material_no |-> PyNone,
     qa_text |-> "",
     image |-> <<>>]

\* the folder process_material has left for the current identifier
WrittenMaterialDir ==
    MaterialDir(mano, <<material_data>>,
                IF json_dumped = <<>> THEN <<>> ELSE SnapshotFile(json_dumped[1]),
                image_files)

Readable(d) == d.snapshot # <<>> /\ d.snapshot[1].readable

BatchDirs == base[1].material_dirs

\* C11: with a readable snapshot in the batch the compilation ends without error and
\* the report has one row per readable snapshot
C11_ReportHasOneRowPerReadableSnapshot ==
    (report_pc = "done" /\ SelectSeq(BatchDirs, Readable) # <<>>) =>
      /\ report_error = "none"
      /\ \E report \in reports :
           /\ report.path = SummaryPath(BatchName)
           /\ Len(report.rows) = Len(SelectSeq(BatchDirs, Readable))
           /\ \A k \in 1..Len(report.rows) :
                report.rows[k].material_number = PyStr(SelectSeq(BatchDirs, Readable)[k].name)

(***************************************************************************)
(* C15.  Round trip: the entry the report compiler reads back from the     *)
(* snapshot written for a Material Record has the record's component       *)
(* reference, cost and supplier name, and its QA text is the rendering of  *)
(* the record's QA mapping; where that rendering raises, reading the       *)
(* snapshot back raises as well and yields no entry.                       *)
(***************************************************************************)
RoundTrips(entry, record) ==
    /\ entry.material_number = PyStr(record.material_number)
    /\ entry.component_id = record.component_id
    /\ entry.cost = record.cost
    /\ entry.supplier_name = record.supplier_name
    /\ ~format_qa_requirements(record.qa_requirements).raised
    /\ entry.qa_text = format_qa_requirements(record.qa_requirements).value

\* the readable folders among those line 171 has taken
ReadableVisited == SelectSeq(SubSeq(BatchDirs, 1, material_i), Readable)

OwnFolder == [is_dir |-> TRUE, name |-> stamp_date]

\* C24: the run's own output folder is never among the folders the sweep deleted
C24_SweepSparesOwnFolder ==
    sweep_pc # "stamp" => OwnFolder \notin removed

(***************************************************************************)
(* C25 (SpecReport).  format_qa_requirements returns a string without      *)
(* raising for every mapping the attribute extractor can produce, also     *)
(* when "Additional Tests" or "Comments" maps to a boolean: no readable    *)
(* snapshot makes the compilation fail at the QA rendering step.           *)
(***************************************************************************)
\* C25: no folder taken so far made collect_material_entry raise, and the rendering of
\* every readable snapshot's QA mapping is a string
C25_QaRenderingNeverRaises ==
    report_pc # "start" =>
      /\ report_error = "none"
      /\ \A i \in 1..material_i :
           Readable(BatchDirs[i]) =>
             ~format_qa_requirements(DataGetQa(BatchDirs[i].snapshot[1].text)).raised

(***************************************************************************)
(* C21 (SpecReport).  The QA column of an entry has one line for every     *)
(* attribute of the snapshot's QA mapping whose value is the boolean true  *)
(* or a non-empty text and none for the others; a null or empty mapping    *)
(* gives the empty string.                                                 *)
(***************************************************************************)
\* the line breaks of the text s from position i on
RECURSIVE Newlines(_, _)
Newlines(s, i) ==
    IF i > Len(s) THEN 0
    ELSE (IF SubSeq(s, i, i) = "\n" THEN 1 ELSE 0) + Newlines(s, i + 1)

\* the lines of a newline-joined text, none for the empty string
LineCount(s) == IF s = "" THEN 0 ELSE Newlines(s, 1) + 1

\* the attributes the column is to show: true ones and non-empty texts
ShownAttributes(qa) ==
    IF qa = NoQa THEN {}
    ELSE {i \in 1..Len(qa[1]) :
            \/ qa[1][i][2] = QaBool(TRUE)
            \/ qa[1][i][2].type = "text" /\ qa[1][i][2] # QaText("")}

\* C21: every collected entry's QA text has as many lines as its record's mapping has
\* true or non-empty attributes, and is "" for a null or empty mapping
C21_OneLinePerTrueOrNonEmptyAttribute ==
    report_pc # "start" =>
      \A k \in 1..Len(report_entries) :
         LET qa == ReadableVisited[k].record[1].qa_requirements
         IN /\ LineCount(report_entries[k].qa_text) = Cardinality(ShownAttributes(qa))
            /\ (qa = NoQa \/ qa = <<<<>>>>) => report_entries[k].qa_text = ""

(***************************************************************************)
(* C22.  get_qa_html and download_image are invoked, and the download      *)
(* requests made, only while the session is ready: after __aenter__ has    *)
(* returned and before __aexit__ stops the browser.  No session operation  *)
(* happens before the login is through or after the close.                 *)
(***************************************************************************)
SessionReady == entered /\ browser = "running" /\ stopCount = 0

\* a step that invokes the session: a page fetch, a download call, a download request
SessionOperation ==
    \/ fetchCalls' = fetchCalls + 1
    \/ downloadCalls' = downloadCalls + 1
    \/ requests' = requests + 1

\* C22: every session operation starts and ends in a ready session, and the
\* orchestrator is inside a session method only while the session is ready
C22_SessionUsedOnlyWhileReady ==
    /\ [](pc \in {"qa_fetch", "dl_start", "dl_loop", "dl_ret"} => SessionReady)
    /\ [][SessionOperation => (SessionReady /\ SessionReady')]_vars

\* the second identifier's page was fetched and its first image requested, session ready
C22_Witness ==
    /\ idx = 2
    /\ fetchCalls = 1
    /\ downloadCalls = 1
    /\ requests = 1
    /\ SessionReady

(***************************************************************************)
(* C23.  With no identifier to process run_extraction returns at once: no  *)
(* browser is started, the record lookup client is never called, and       *)
(* neither the batch folder nor any identifier folder or file is created.  *)
(***************************************************************************)
C23_EmptyIdentifiersDoNothing ==
    material_numbers = <<>> =>
      /\ pc \in {"read", "done"}
      /\ openCount = 0 /\ browser = "none" /\ ~entered /\ stopCount = 0
      /\ lookupCalls = 0 /\ fetchCalls = 0 /\ downloadCalls = 0
      /\ ~output_folder /\ dirs = {} /\ written = <<>>
      /\ error = "none"
      /\ pc = "done" => result = EmptyRunResult

\* the run over no identifiers has returned
C23_Witness ==
    /\ material_numbers = <<>>
    /\ pc = "done"
    /\ result = EmptyRunResult
    /\ ~output_folder

====
